---- MODULE Spec2Model ----
(***************************************************************************)
(* Model of torchx.components.base.roles.create_torch_dist_role.           *)
(*                                                                         *)
(* Every local list and mapping of the function lives in a heap that is    *)
(* addressed by strings, so that aliasing between the objects of the       *)
(* caller and the objects of the function (and between two calls that run  *)
(* at the same time) is something the model can get wrong.  Every          *)
(* statement of the function is an operator from (heap, frame) to          *)
(* (heap, frame); the actions execute one statement of one call.           *)
(***************************************************************************)
EXTENDS Integers, Sequences, FiniteSets, TLC

VARIABLES
    pc,     \* pc[c]: the statement call c executes next
    inp,    \* inp[c]: the arguments call c was made with
    loc,    \* loc[c]: the frame (parameters and locals) of call c
    heap,   \* address -> contents of every list and mapping
    ret     \* ret[c]: the Role call c returned

vars == <<pc, inp, loc, heap, ret>>

\* Longest generated launch_kwargs mapping (the documented example is added
\* to the generated ones whatever this bound is).
MaxKwargs == 2

Threads == {"c1", "c2"}

----------------------------------------------------------------------------
(* Python values carried by launch_kwargs: the type tag decides            *)
(* isinstance(val, bool) and str(val).                                     *)

PyBool(b) == [t |-> "bool", b |-> b, i |-> 0, s |-> ""]
PyInt(i)  == [t |-> "int", b |-> FALSE, i |-> i, s |-> ""]
PyText(s) == [t |-> "str", b |-> FALSE, i |-> 0, s |-> s]
PyNone    == [t |-> "NoneType", b |-> FALSE, i |-> 0, s |-> ""]

Item(k, v) == [k |-> k, v |-> v]

\* the reference that stands for an omitted argument / an unbound local
None == "None"

\* macros.app_id and macros.img_root: placeholder strings resolved later
app_id == "${app_id}"
img_root == "${img_root}"

\* isinstance(val, bool)
IsBool(v) == v.t = "bool"

\* str(val)
PyStr(v) ==
    CASE v.t = "bool" -> (IF v.b THEN "True" ELSE "False")
      [] v.t = "int" -> ToString(v.i)
      [] v.t = "str" -> v.s
      [] v.t = "NoneType" -> "None"

\* f"--{arg}"
Flag(arg) == "--" \o arg

\* str.startswith
StartsWith(s, p) == Len(s) >= Len(p) /\ SubSeq(s, 1, Len(p)) = p

\* str.endswith
EndsWith(s, p) == Len(s) >= Len(p) /\ SubSeq(s, Len(s) - Len(p) + 1, Len(s)) = p

\* os.path.isabs (posix)
IsAbs(s) == StartsWith(s, "/")

\* os.path.join (posix), two components
PathJoin(a, b) ==
    IF StartsWith(b, "/") THEN b
    ELSE IF a = "" \/ EndsWith(a, "/") THEN a \o b
    ELSE a \o "/" \o b

----------------------------------------------------------------------------
(* Ordered mappings (dict): a sequence of items with distinct keys.        *)

Keys(d) == {d[n].k : n \in 1..Len(d)}

HasKey(d, k) == k \in Keys(d)

Get(d, k) == d[CHOOSE n \in 1..Len(d) : d[n].k = k].v

\* setdefault as a merge that puts the defaults first: {k: v, **d}
SetDefaultFront(d, k, v) == IF HasKey(d, k) THEN d ELSE <<Item(k, v)>> \o d

\* setdefault as an assignment: d[k] = v
SetDefaultOverride(d, k, v) ==
    IF HasKey(d, k)
    THEN [n \in 1..Len(d) |-> IF d[n].k = k THEN Item(k, v) ELSE d[n]]
    ELSE Append(d, Item(k, v))

\* bool(val)
Truthy(v) ==
    CASE v.t = "bool" -> v.b
      [] v.t = "int" -> v.i # 0
      [] v.t = "str" -> v.s # ""
      [] v.t = "NoneType" -> FALSE

\* setdefault as d[k] = d.get(k) or v
SetDefaultFalsy(d, k, v) ==
    IF HasKey(d, k)
    THEN [n \in 1..Len(d) |-> IF d[n].k = k /\ ~Truthy(d[n].v) THEN Item(k, v) ELSE d[n]]
    ELSE Append(d, Item(k, v))

\* dict.setdefault(k, v): a present key keeps its value and its position
SetDefault(d, k, v) == IF HasKey(d, k) THEN d ELSE Append(d, Item(k, v))

----------------------------------------------------------------------------
(* The heap.                                                               *)

Store(h, a, v) == [x \in DOMAIN h \cup {a} |-> IF x = a THEN v ELSE h[x]]

\* the address of the object call c allocates for `what`
Fresh(c, what) == c \o "." \o what

OwnedBy(c) == {Fresh(c, w) : w \in {"launch_kwargs", "script_args", "script_envs", "args"}}

Free(h, c) == [x \in DOMAIN h \ OwnedBy(c) |-> h[x]]

\* The lists and mappings the callers own and pass in.
CallerHeap ==
    [a \in {"argv_empty", "argv_lr", "argv_doc", "env_empty", "env_omp"} |->
        CASE a = "argv_empty" -> <<>>
          [] a = "argv_lr" -> <<"--lr", "0.1">>
          [] a = "argv_doc" -> <<"--script_arg", "foo", "--another_arg", "bar">>
          [] a = "env_empty" -> <<>>
          [] a = "env_omp" -> <<Item("OMP_NUM_THREADS", PyText("1"))>>]

\* the address of the mapping the caller of c unpacks into the call (**mapping)
CallerKw(c) == c \o ".caller_kwargs"

----------------------------------------------------------------------------
(* The statements of create_torch_dist_role.  S is [h |-> heap,            *)
(* f |-> frame]; each statement returns the S after it.                    *)

\* Entering the function: the parameters are bound, and **launch_kwargs is a
\* new mapping holding the items of the mapping the caller unpacked.
Bind(h, in, c) ==
    [h |-> Store(h, Fresh(c, "launch_kwargs"), h[CallerKw(c)]),
     f |-> [name |-> in.name,
            container |-> in.container,
            entrypoint |-> in.entrypoint,
            script_args |-> in.script_args,
            script_envs |-> in.script_envs,
            num_replicas |-> in.num_replicas,
            max_retries |-> in.max_retries,
            retry_policy |-> in.retry_policy,
            launch_kwargs |-> Fresh(c, "launch_kwargs"),
            entrypoint_override |-> None,
            args |-> None,
            it |-> 0]]

\* x or []  /  x or {}: None and the empty container are both falsy
Falsy(h, ref) == ref = None \/ h[ref] = <<>>

\* script_args = script_args or []
L72(h, f, c) ==
    IF Falsy(h, f.script_args)
    THEN [h |-> Store(h, Fresh(c, "script_args"), <<>>),
          f |-> [f EXCEPT !.script_args = Fresh(c, "script_args")]]
    ELSE [h |-> h, f |-> f]

\* script_envs = script_envs or {}
L73(h, f, c) ==
    IF Falsy(h, f.script_envs)
    THEN [h |-> Store(h, Fresh(c, "script_envs"), <<>>),
          f |-> [f EXCEPT !.script_envs = Fresh(c, "script_envs")]]
    ELSE [h |-> h, f |-> f]

\* `args` as one list of the module, shared by every call
ArgsAddrShared(c) == "roles.args"

\* where the list of `args` is allocated
ArgsAddr(c) == Fresh(c, "args")

\* entrypoint_override = "python"; args = ["-m", "torch.distributed.launch"]
L76(h, f, c) ==
    [h |-> Store(h, ArgsAddr(c), <<"-m", "torch.distributed.launch">>),
     f |-> [f EXCEPT !.entrypoint_override = "python", !.args = ArgsAddr(c)]]

\* launch_kwargs.setdefault("rdzv_backend", "etcd")
L78(h, f, c) ==
    [h |-> Store(h, f.launch_kwargs,
                 SetDefault(h[f.launch_kwargs], "rdzv_backend", PyText("etcd"))),
     f |-> f]

\* launch_kwargs.setdefault("rdzv_id", macros.app_id)
L79(h, f, c) ==
    [h |-> Store(h, f.launch_kwargs,
                 SetDefault(h[f.launch_kwargs], "rdzv_id", PyText(app_id))),
     f |-> f]

\* launch_kwargs.setdefault("role", name)
L80(h, f, c) ==
    [h |-> Store(h, f.launch_kwargs,
                 SetDefault(h[f.launch_kwargs], "role", PyText(f.name))),
     f |-> f]

\* for (arg, val) in launch_kwargs.items(): is there a next item?
ForMore(h, f) == f.it < Len(h[f.launch_kwargs])

\* the flag test as `val == True` / `val == False`, which the integers 1 and 0 pass
EmitTruthy(arg, val) ==
    IF IsBool(val) \/ (val.t = "int" /\ val.i \in {0, 1})
    THEN (IF Truthy(val) THEN <<Flag(arg)>> ELSE <<>>)
    ELSE <<Flag(arg), PyStr(val)>>

\* the tokens one item adds to args (lines 83-88)
Emit(arg, val) ==
    IF IsBool(val)
    THEN (IF val.b THEN <<Flag(arg)>> ELSE <<>>)
    ELSE <<Flag(arg), PyStr(val)>>

\* one iteration of the loop: args += the tokens of the next item
L82(h, f, c) ==
    LET item == h[f.launch_kwargs][f.it + 1]
    IN [h |-> Store(h, f.args, h[f.args] \o Emit(item.k, item.v)),
        f |-> [f EXCEPT !.it = f.it + 1]]

\* the normalisation without the startswith(macros.img_root) test
NormaliseAbsOnly(entrypoint) ==
    IF ~IsAbs(entrypoint) THEN PathJoin(img_root, entrypoint) ELSE entrypoint

\* if not os.path.isabs(entrypoint) and not entrypoint.startswith(macros.img_root):
\*     entrypoint = os.path.join(macros.img_root, entrypoint)
Normalise(entrypoint) ==
    IF ~IsAbs(entrypoint) /\ ~StartsWith(entrypoint, img_root)
    THEN PathJoin(img_root, entrypoint)
    ELSE entrypoint

L89(h, f, c) == [h |-> h, f |-> [f EXCEPT !.entrypoint = Normalise(f.entrypoint)]]

\* args += [*script_args, entrypoint]
L93ArgsFirst(h, f, c) ==
    [h |-> Store(h, f.args, h[f.args] \o h[f.script_args] \o <<f.entrypoint>>),
     f |-> f]

\* script_args.insert(0, entrypoint); args += script_args
L93InPlace(h, f, c) ==
    LET sa == <<f.entrypoint>> \o h[f.script_args]
        h1 == Store(h, f.script_args, sa)
    IN [h |-> Store(h1, f.args, h1[f.args] \o sa), f |-> f]

\* args += [entrypoint, *script_args]
L93(h, f, c) ==
    [h |-> Store(h, f.args, h[f.args] \o <<f.entrypoint>> \o h[f.script_args]),
     f |-> f]

----------------------------------------------------------------------------
(* The Role builder (torchx.specs.api).                                    *)

NewRole(name) ==
    [name |-> name, entrypoint |-> None, args |-> <<>>, env |-> <<>>,
     container |-> None, num_replicas |-> 1,
     retry_policy |-> "APPLICATION", max_retries |-> 0]

\* Role.runs(entrypoint, *args, **kwargs): the role keeps its own copies
Runs(role, entrypoint, args, env) ==
    [role EXCEPT !.entrypoint = entrypoint, !.args = args, !.env = env]

On(role, container) == [role EXCEPT !.container = container]

Replicas(role, n) == [role EXCEPT !.num_replicas = n]

WithRetryPolicy(role, policy, n) ==
    [role EXCEPT !.retry_policy = policy, !.max_retries = n]

\* the return with the replica count made at least 1
L94Clamped(h, f) ==
    WithRetryPolicy(
        Replicas(
            On(Runs(NewRole(f.name), f.entrypoint_override, h[f.args], h[f.script_envs]),
               f.container),
            IF f.num_replicas < 1 THEN 1 ELSE f.num_replicas),
        f.retry_policy, f.max_retries)

\* return Role(name).runs(entrypoint_override, *args, **script_envs)
\*            .on(container).replicas(num_replicas)
\*            .with_retry_policy(retry_policy, max_retries)
L94(h, f) ==
    WithRetryPolicy(
        Replicas(
            On(Runs(NewRole(f.name), f.entrypoint_override, h[f.args], h[f.script_envs]),
               f.container),
            f.num_replicas),
        f.retry_policy, f.max_retries)

\* The whole body run without interruption from state S.
RECURSIVE Loop(_, _)
Loop(S, c) == IF ForMore(S.h, S.f) THEN Loop(L82(S.h, S.f, c), c) ELSE S

Body(S0, c) ==
    LET S1 == L72(S0.h, S0.f, c)
        S2 == L73(S1.h, S1.f, c)
        S3 == L76(S2.h, S2.f, c)
        S4 == L78(S3.h, S3.f, c)
        S5 == L79(S4.h, S4.f, c)
        S6 == L80(S5.h, S5.f, c)
        S7 == Loop(S6, c)
        S8 == L89(S7.h, S7.f, c)
        S9 == L93(S8.h, S8.f, c)
    IN L94(S9.h, S9.f)

\* create_torch_dist_role(**in) called alone, by a caller that owns CallerHeap
\* and the mapping in.kw
create_torch_dist_role(in) ==
    Body(Bind(Store(CallerHeap, CallerKw("c1"), in.kw), in, "c1"), "c1")

----------------------------------------------------------------------------
(* The calls that are made.                                                *)

Input(name, container, entrypoint, sargs, senvs, replicas, retries, policy, kw) ==
    [name |-> name, container |-> container, entrypoint |-> entrypoint,
     script_args |-> sargs, script_envs |-> senvs,
     num_replicas |-> replicas, max_retries |-> retries,
     retry_policy |-> policy, kw |-> kw]

DefaultKeys == {"rdzv_backend", "rdzv_id", "role"}

KwKeys == {"foo"} \cup DefaultKeys

KwVals == {PyBool(TRUE), PyBool(FALSE), PyInt(1), PyInt(0), PyText("c10d")}

KwItems == {Item(k, v) : k \in KwKeys, v \in KwVals}

\* a mapping has no key twice
Distinct(d) == \A m, n \in 1..Len(d) : d[m].k = d[n].k => m = n

GenKwargs == {d \in UNION {[1..n -> KwItems] : n \in 0..MaxKwargs} : Distinct(d)}

\* nproc_per_node=8, nnodes="2:4", max_restarts=3 (the docstring's example)
DocKwargs ==
    <<Item("nproc_per_node", PyInt(8)), Item("nnodes", PyText("2:4")),
      Item("max_restarts", PyInt(3))>>

Entrypoints ==
    {"train.py", "my_train_script.py", "/abs/train.py", "${img_root}/train.py",
     "${img_root}", ""}

\* calls that vary the launch kwargs
FlagInputs ==
    {Input(name, "container", entrypoint, script_args, None, 1, 0, "APPLICATION", kw) :
        name \in {"trainer", "ps"}, entrypoint \in {"train.py", "/abs/train.py"},
        script_args \in {None, "argv_lr"}, kw \in GenKwargs \cup {DocKwargs}}

\* calls that vary everything else
RoleInputs ==
    {Input("trainer", "container", entrypoint, script_args, script_envs,
           num_replicas, max_retries, retry_policy, kw) :
        entrypoint \in Entrypoints,
        script_args \in {None, "argv_empty", "argv_lr", "argv_doc"},
        script_envs \in {None, "env_empty", "env_omp"},
        num_replicas \in {-1, 0, 1, 4, 5},
        max_retries \in {-1, 0, 1},
        retry_policy \in {"APPLICATION", "REPLICA"},
        kw \in {<<>>, DocKwargs, <<Item("role", PyBool(FALSE))>>,
                <<Item("rdzv_id", PyNone)>>}}

Inputs == FlagInputs \cup RoleInputs

\* the calls two threads make at the same time
ConcInputs ==
    {Input(name, "container", entrypoint, script_args, script_envs, 1, 0,
           "APPLICATION", kw) :
        name \in {"trainer", "ps"}, entrypoint \in {"train.py", "/abs/train.py"},
        script_args \in {None, "argv_lr"}, script_envs \in {None, "env_omp"},
        kw \in {<<>>, <<Item("role", PyBool(FALSE))>>,
                <<Item("rdzv_id", PyInt(1)), Item("foo", PyBool(TRUE))>>}}

NoInput == Input(None, None, None, None, None, 0, 0, None, <<>>)

NoFrame ==
    [name |-> None, container |-> None, entrypoint |-> None, script_args |-> None,
     script_envs |-> None, num_replicas |-> 0, max_retries |-> 0,
     retry_policy |-> None, launch_kwargs |-> None, entrypoint_override |-> None,
     args |-> None, it |-> 0]

NoRole == NewRole(None)

----------------------------------------------------------------------------
(* Actions: one statement of one call.                                     *)

Init ==
    /\ pc = [c \in Threads |-> "idle"]
    /\ inp = [c \in Threads |-> NoInput]
    /\ loc = [c \in Threads |-> NoFrame]
    /\ heap = CallerHeap
    /\ ret = [c \in Threads |-> NoRole]

\* call c executes the statement at `from`, which leaves S, and goes to `to`
Exec(c, from, to, S) ==
    /\ pc[c] = from
    /\ pc' = [pc EXCEPT ![c] = to]
    /\ heap' = S.h
    /\ loc' = [loc EXCEPT ![c] = S.f]
    /\ UNCHANGED <<inp, ret>>

\* the caller builds its kwargs mapping and calls the function
Call(c, in) ==
    /\ pc[c] = "idle"
    /\ LET S == Bind(Store(heap, CallerKw(c), in.kw), in, c)
       IN /\ heap' = S.h
          /\ loc' = [loc EXCEPT ![c] = S.f]
    /\ pc' = [pc EXCEPT ![c] = "l72"]
    /\ inp' = [inp EXCEPT ![c] = in]
    /\ UNCHANGED ret

Line72(c) == Exec(c, "l72", "l73", L72(heap, loc[c], c))

Line73(c) == Exec(c, "l73", "l76", L73(heap, loc[c], c))

Line76(c) == Exec(c, "l76", "l78", L76(heap, loc[c], c))

Line78(c) == Exec(c, "l78", "l79", L78(heap, loc[c], c))

Line79(c) == Exec(c, "l79", "l80", L79(heap, loc[c], c))

Line80(c) == Exec(c, "l80", "l82", L80(heap, loc[c], c))

ForBody(c) ==
    /\ pc[c] = "l82"
    /\ ForMore(heap, loc[c])
    /\ Exec(c, "l82", "l82", L82(heap, loc[c], c))

ForExit(c) ==
    /\ pc[c] = "l82"
    /\ ~ForMore(heap, loc[c])
    /\ pc' = [pc EXCEPT ![c] = "l89"]
    /\ UNCHANGED <<inp, loc, heap, ret>>

Line89(c) == Exec(c, "l89", "l93", L89(heap, loc[c], c))

Line93(c) == Exec(c, "l93", "l94", L93(heap, loc[c], c))

Line94(c) ==
    /\ pc[c] = "l94"
    /\ ret' = [ret EXCEPT ![c] = L94(heap, loc[c])]
    /\ pc' = [pc EXCEPT ![c] = "done"]
    /\ UNCHANGED <<inp, loc, heap>>

\* the caller takes the Role; the objects of the call are garbage
Return(c) ==
    /\ pc[c] = "done"
    /\ pc' = [pc EXCEPT ![c] = "idle"]
    /\ inp' = [inp EXCEPT ![c] = NoInput]
    /\ loc' = [loc EXCEPT ![c] = NoFrame]
    /\ ret' = [ret EXCEPT ![c] = NoRole]
    /\ heap' = [x \in DOMAIN Free(heap, c) \ {CallerKw(c)} |-> heap[x]]

\* the next statement of call c
Step(c) ==
    \/ Line72(c)
    \/ Line73(c)
    \/ Line76(c)
    \/ Line78(c)
    \/ Line79(c)
    \/ Line80(c)
    \/ ForBody(c)
    \/ ForExit(c)
    \/ Line89(c)
    \/ Line93(c)
    \/ Line94(c)

\* calls made one after the other
Next ==
    \/ pc["c1"] = "idle" /\ \E in \in Inputs : Call("c1", in)
    \/ Line72("c1")
    \/ Line73("c1")
    \/ Line76("c1")
    \/ Line78("c1")
    \/ Line79("c1")
    \/ Line80("c1")
    \/ ForBody("c1")
    \/ ForExit("c1")
    \/ Line89("c1")
    \/ Line93("c1")
    \/ Line94("c1")
    \/ Return("c1")

Spec == Init /\ [][Next]_vars

\* calls made by two threads, their statements interleaved
NextConc ==
    \E c \in Threads :
        \/ pc[c] = "idle" /\ \E in \in ConcInputs : Call(c, in)
        \/ Line72(c)
        \/ Line73(c)
        \/ Line76(c)
        \/ Line78(c)
        \/ Line79(c)
        \/ Line80(c)
        \/ ForBody(c)
        \/ ForExit(c)
        \/ Line89(c)
        \/ Line93(c)
        \/ Line94(c)
        \/ Return(c)

SpecConc == Init /\ [][NextConc]_vars

----------------------------------------------------------------------------
(* What the claims are stated over.                                        *)

Done(c) == pc[c] = "done"

Range(s) == {s[n] : n \in 1..Len(s)}

Count(s, t) == Cardinality({n \in 1..Len(s) : s[n] = t})

\* the place of token t in s (t occurs in s)
Pos(s, t) == CHOOSE n \in 1..Len(s) : s[n] = t

\* the script arguments the caller passed, as they were when it passed them
GivenArgs(c) ==
    IF inp[c].script_args = None THEN <<>> ELSE CallerHeap[inp[c].script_args]

\* the argument sequence handed to Role.runs (*args), once the call has returned
RunArgs(c) == heap[loc[c].args]

\* its parts: [-m, torch.distributed.launch] ++ FlagTokens ++ [EntryToken] ++ script_args
EntryAt(c) == Len(RunArgs(c)) - Len(GivenArgs(c))

EntryToken(c) == RunArgs(c)[EntryAt(c)]

FlagTokens(c) == SubSeq(RunArgs(c), 3, EntryAt(c) - 1)

\* the value a default key gets when the caller does not give it
DefaultText(k, name) ==
    CASE k = "rdzv_backend" -> "etcd"
      [] k = "rdzv_id" -> app_id
      [] k = "role" -> name

\* the keys of the caller that put a flag on the command line
Emitting(kw) == {k \in Keys(kw) : ~(Get(kw, k) = PyBool(FALSE))}

\* the place of key k in the caller's mapping
KeyAt(kw, k) == CHOOSE n \in 1..Len(kw) : kw[n].k = k

\* the flag of k is followed by no value: by the flag of another key, or by nothing
BareFlag(F, k, keys) ==
    /\ Count(F, Flag(k)) = 1
    /\ \/ Pos(F, Flag(k)) = Len(F)
       \/ F[Pos(F, Flag(k)) + 1] \in {Flag(j) : j \in keys \ {k}}

\* the flag of k occurs once and is followed by text
FlagWith(F, k, text) ==
    /\ Count(F, Flag(k)) = 1
    /\ Pos(F, Flag(k)) < Len(F)
    /\ F[Pos(F, Flag(k)) + 1] = text

\* C1: the argument sequence handed to Role.runs is
\* [-m, torch.distributed.launch] ++ flag tokens ++ [entrypoint token] ++
\* script_args: it starts with the two fixed tokens, every token between them
\* and the entrypoint token is a flag or a value of the launch kwargs or of an
\* injected default and every flag the kwargs give is among them, and the
\* caller's script_args are the last tokens, in order, right after the
\* entrypoint token.
C1_ArgsShape ==
    \A c \in Threads : Done(c) =>
        LET a == RunArgs(c)
            sa == GivenArgs(c)
            kw == inp[c].kw
            F == FlagTokens(c)
        IN /\ Len(a) >= 3 + Len(sa)
           /\ a[1] = "-m"
           /\ a[2] = "torch.distributed.launch"
           /\ SubSeq(a, EntryAt(c) + 1, Len(a)) = sa
           /\ EntryToken(c) \in {inp[c].entrypoint, img_root \o "/" \o inp[c].entrypoint}
           /\ Range(F) \subseteq
                {Flag(k) : k \in Keys(kw) \cup DefaultKeys}
                \cup {PyStr(kw[n].v) : n \in 1..Len(kw)}
                \cup {DefaultText(k, inp[c].name) : k \in DefaultKeys}
           /\ \A k \in Emitting(kw) \cup (DefaultKeys \ Keys(kw)) : Flag(k) \in Range(F)

C1_Witness ==
    \E c \in Threads :
        /\ Done(c)
        /\ Len(inp[c].kw) = 2
        /\ inp[c].script_args = "argv_lr"
        /\ Len(RunArgs(c)) >= 9

\* C2: when the launch kwargs hold none of rdzv_backend, rdzv_id and role,
\* the flag tokens end with --rdzv_backend etcd --rdzv_id <app id token>
\* --role <name>, after the flags of every explicit kwarg, and the explicit
\* kwargs' flags are in insertion order.
C2_DefaultsAppended ==
    \A c \in Threads : (Done(c) /\ Keys(inp[c].kw) \cap DefaultKeys = {}) =>
        LET F == FlagTokens(c)
            kw == inp[c].kw
            n == Len(F)
        IN /\ n >= 6
           /\ SubSeq(F, n - 5, n) =
                <<"--rdzv_backend", "etcd", "--rdzv_id", "${app_id}",
                  "--role", inp[c].name>>
           /\ \A k \in Emitting(kw) :
                /\ Count(F, Flag(k)) = 1
                /\ Pos(F, Flag(k)) < n - 5
           /\ \A j, k \in Emitting(kw) :
                KeyAt(kw, j) < KeyAt(kw, k) => Pos(F, Flag(j)) < Pos(F, Flag(k))

C2_Witness ==
    \E c \in Threads :
        /\ Done(c)
        /\ inp[c].kw = DocKwargs
        /\ Len(FlagTokens(c)) = 12

\* C3: a default key the caller gives keeps the caller's value, is emitted at
\* most once and keeps its place among the explicit keys; the defaults that
\* are missing, and only those, come after every explicit flag, in the order
\* rdzv_backend, rdzv_id, role, with their default values.
C3_ExplicitWins ==
    \A c \in Threads : Done(c) =>
        LET F == FlagTokens(c)
            kw == inp[c].kw
            missing == DefaultKeys \ Keys(kw)
            rank == [k \in DefaultKeys |->
                        CASE k = "rdzv_backend" -> 1 [] k = "rdzv_id" -> 2 [] k = "role" -> 3]
        IN /\ \A k \in DefaultKeys \cap Keys(kw) :
                /\ Count(F, Flag(k)) <= 1
                /\ k \in Emitting(kw) => Count(F, Flag(k)) = 1
                /\ ~IsBool(Get(kw, k)) => FlagWith(F, k, PyStr(Get(kw, k)))
                /\ \A j \in Emitting(kw) :
                     (k \in Emitting(kw) /\ KeyAt(kw, j) < KeyAt(kw, k))
                        => Pos(F, Flag(j)) < Pos(F, Flag(k))
                /\ \A j \in Emitting(kw) :
                     (k \in Emitting(kw) /\ KeyAt(kw, k) < KeyAt(kw, j))
                        => Pos(F, Flag(k)) < Pos(F, Flag(j))
           /\ \A d \in missing :
                /\ FlagWith(F, d, DefaultText(d, inp[c].name))
                /\ \A k \in Emitting(kw) : Pos(F, Flag(k)) < Pos(F, Flag(d))
                /\ \A e \in missing : rank[d] < rank[e] => Pos(F, Flag(d)) < Pos(F, Flag(e))

C3_Witness ==
    \E c \in Threads :
        /\ Done(c)
        /\ inp[c].kw = <<Item("role", PyText("c10d")), Item("foo", PyInt(1))>>
        /\ FlagTokens(c) =
             <<"--role", "c10d", "--foo", "1", "--rdzv_backend", "etcd",
               "--rdzv_id", "${app_id}">>

\* C4: a kwarg whose value is the boolean true puts exactly the token --k with
\* no value after it; one whose value is the boolean false puts nothing; one
\* whose value is not a boolean (the integers 1 and 0 too) puts exactly --k
\* and the text of the value.
C4_BoolIsFlag ==
    \A c \in Threads : Done(c) =>
        LET F == FlagTokens(c)
            kw == inp[c].kw
            all == Keys(kw) \cup DefaultKeys
            bare == {k \in Keys(kw) : Get(kw, k) = PyBool(TRUE)}
            none == {k \in Keys(kw) : Get(kw, k) = PyBool(FALSE)}
            valued == all \ (bare \cup none)
        IN /\ \A k \in bare : BareFlag(F, k, all)
           /\ \A k \in none : Count(F, Flag(k)) = 0
           /\ \A k \in valued \cap Keys(kw) :
                FlagWith(F, k,
                    CASE Get(kw, k).t = "int" ->
                           (CASE Get(kw, k).i = 0 -> "0" [] Get(kw, k).i = 1 -> "1"
                              [] Get(kw, k).i = 3 -> "3" [] Get(kw, k).i = 8 -> "8")
                      [] Get(kw, k).t = "str" -> Get(kw, k).s
                      [] Get(kw, k).t = "NoneType" -> "None")
           /\ Len(F) = Cardinality(bare) + 2 * Cardinality(valued)

C4_Witness ==
    \E c \in Threads :
        /\ Done(c)
        /\ inp[c].kw = <<Item("foo", PyInt(1)), Item("role", PyBool(TRUE))>>
        /\ FlagTokens(c) =
             <<"--foo", "1", "--role", "--rdzv_backend", "etcd", "--rdzv_id", "${app_id}">>

\* C5 as stated: the entrypoint token is the image-root token path-joined
\* with the given entrypoint exactly when the entrypoint is neither absolute
\* nor starts with the image-root token, and is the given entrypoint otherwise.
C5_JoinedExactlyWhen ==
    \A c \in Threads : Done(c) =>
        LET e == inp[c].entrypoint
            rewrite == ~IsAbs(e) /\ ~StartsWith(e, img_root)
        IN /\ (EntryToken(c) = PathJoin(img_root, e)) <=> rewrite
           /\ ~rewrite => EntryToken(c) = e

\* C5 amended: an entrypoint that is neither absolute nor starts with the
\* image-root token becomes <image root>/<entrypoint>; every other entrypoint
\* is kept as given.  For an absolute entrypoint the path-join gives the
\* entrypoint itself, so the token differs from the path-join only when the
\* entrypoint starts with the image-root token.
C5_Normalised ==
    \A c \in Threads : Done(c) =>
        LET e == inp[c].entrypoint
            rewrite == (e = "" \/ SubSeq(e, 1, 1) # "/") /\ ~StartsWith(e, "${img_root}")
        IN /\ rewrite => EntryToken(c) = "${img_root}/" \o e
           /\ ~rewrite => EntryToken(c) = e
           /\ (EntryToken(c) = PathJoin(img_root, e)) <=> ~StartsWith(e, "${img_root}")

C5_Witness ==
    \E c \in Threads :
        /\ Done(c)
        /\ inp[c].entrypoint = "/abs/train.py"
        /\ EntryToken(c) = "/abs/train.py"
        /\ EntryToken(c) = PathJoin(img_root, inp[c].entrypoint)

\* C6: no call ends in an error: every statement of a call that has started
\* can be executed, and the Role returned has the given name, the program
\* python, the given container, exactly the given replica count (zero,
\* negative or outside the nnodes range too) and exactly the given retry
\* policy and max retries.
C6_NoValidation ==
    \A c \in Threads :
        /\ (pc[c] # "idle" /\ pc[c] # "done") => ENABLED Step(c)
        /\ Done(c) =>
              /\ ret[c].name = inp[c].name
              /\ ret[c].entrypoint = "python"
              /\ ret[c].container = inp[c].container
              /\ ret[c].num_replicas = inp[c].num_replicas
              /\ ret[c].retry_policy = inp[c].retry_policy
              /\ ret[c].max_retries = inp[c].max_retries

C6_Witness ==
    \E c \in Threads :
        /\ Done(c)
        /\ inp[c].kw = DocKwargs
        /\ inp[c].num_replicas = -1
        /\ inp[c].max_retries = -1
        /\ ret[c].num_replicas = -1

\* C7: the docstring's example call runs, token for token,
\* python -m torch.distributed.launch --nproc_per_node 8 --nnodes 2:4
\* --max_restarts 3 my_train_script.py --script_arg foo --another_arg bar.
C7_DocstringCommand ==
    \A c \in Threads :
        (/\ Done(c)
         /\ inp[c].name = "trainer"
         /\ inp[c].entrypoint = "my_train_script.py"
         /\ inp[c].script_args = "argv_doc"
         /\ inp[c].num_replicas = 4
         /\ inp[c].max_retries = 1
         /\ inp[c].kw = DocKwargs)
        => <<ret[c].entrypoint>> \o ret[c].args =
             <<"python", "-m", "torch.distributed.launch", "--nproc_per_node", "8",
               "--nnodes", "2:4", "--max_restarts", "3", "my_train_script.py",
               "--script_arg", "foo", "--another_arg", "bar">>

\* C8: no call changes an object of its caller: the caller's script_args
\* lists, script_envs mappings and the mapping it unpacked as launch kwargs
\* hold what they held when passed; an omitted script_args or script_envs is
\* an empty object of the call itself, shared with no caller and no other
\* call.
C8_CallerUntouched ==
    /\ \A a \in DOMAIN CallerHeap : heap[a] = CallerHeap[a]
    /\ \A c \in Threads : pc[c] # "idle" =>
          /\ heap[CallerKw(c)] = inp[c].kw
          /\ (inp[c].script_args = None /\ pc[c] # "l72") =>
                /\ loc[c].script_args \notin DOMAIN CallerHeap
                /\ heap[loc[c].script_args] = <<>>
                /\ \A d \in Threads \ {c} : loc[d].script_args # loc[c].script_args
          /\ (inp[c].script_envs = None /\ pc[c] \notin {"l72", "l73"}) =>
                /\ loc[c].script_envs \notin DOMAIN CallerHeap
                /\ heap[loc[c].script_envs] = <<>>
                /\ \A d \in Threads \ {c} : loc[d].script_envs # loc[c].script_envs

C8_Witness ==
    \E c \in Threads : \E d \in Threads \ {c} :
        /\ Done(c)
        /\ inp[c].script_args = "argv_lr"
        /\ inp[c].kw = <<>>
        /\ Len(heap[loc[c].launch_kwargs]) = 3
        /\ pc[d] = "l94"
        /\ inp[d].script_args = None
        /\ inp[d].script_envs = None

\* C9: however the statements of two calls interleave, each call returns the
\* Role the same arguments give when the function runs alone.
C9_SameAsAlone ==
    \A c \in Threads : Done(c) => ret[c] = create_torch_dist_role(inp[c])

C9_Witness ==
    \E c \in Threads : \E d \in Threads \ {c} :
        /\ Done(c)
        /\ pc[d] = "l82"
        /\ loc[d].it = 1
        /\ inp[d].kw # inp[c].kw
        /\ inp[d].name # inp[c].name

\* C10: an explicit boolean false for rdzv_backend, rdzv_id or role leaves no
\* token for that key in the argument sequence (the default does not come
\* back); an explicit boolean true leaves the bare flag with no value token.
C10_ExplicitBoolDefault ==
    \A c \in Threads : Done(c) =>
        LET kw == inp[c].kw
            F == FlagTokens(c)
        IN \A k \in DefaultKeys \cap Keys(kw) :
              /\ Get(kw, k) = PyBool(FALSE) =>
                    /\ Flag(k) \notin Range(RunArgs(c))
                    /\ (k = "role" /\ inp[c].name \notin {PyStr(kw[n].v) : n \in 1..Len(kw)})
                          => inp[c].name \notin Range(F)
              /\ Get(kw, k) = PyBool(TRUE) => BareFlag(F, k, Keys(kw) \cup DefaultKeys)

C10_Witness ==
    \E c \in Threads :
        /\ Done(c)
        /\ inp[c].kw = <<Item("role", PyBool(FALSE)), Item("rdzv_id", PyBool(TRUE))>>
        /\ FlagTokens(c) = <<"--rdzv_id", "--rdzv_backend", "etcd">>

====
